---- MODULE Spec2Model ----
(***************************************************************************)
(* Photfolio build script (build.py): the album tree built by scan_photos, *)
(* the incremental-build decision of process_image and the orchestration   *)
(* of build(), over a model of the source photos and of the output tree    *)
(* on disk.                                                                *)
(*                                                                         *)
(* A path is a sequence of segments.  An album 'path' string is modelled   *)
(* by the sequence of its '/'-separated segments ('' is <<>>), a file name *)
(* by a record [stem, suffix] whose string is stem \o suffix.              *)
(***************************************************************************)
EXTENDS Integers, Sequences, FiniteSets, TLC

(***************************************************************************)
(* Bounds of the model.                                                    *)
(***************************************************************************)
\* Largest number of files in the photos directory.
MaxFiles == 2
\* Number of builds run.
MaxBuilds == 2
\* Last instant of the filesystem clock.
MaxTime == 2
\* Number of changes made to the photos directory between builds.
MaxChanges == 1

(***************************************************************************)
(* Sequences and strings.                                                  *)
(***************************************************************************)
Range(s) == {s[i] : i \in 1..Len(s)}

IsPrefix(p, q) == Len(p) <= Len(q) /\ SubSeq(q, 1, Len(p)) = p

Min(a, b) == IF a <= b THEN a ELSE b

Max(a, b) == IF a >= b THEN a ELSE b

\* Every path segment the model uses, in code-point order (upper case first).
AsciiOrder ==
  << "Main", "New York", "a.jpg", "a.png", "b.jpg", "c.jpg", "main", "notes.txt", "spain",
     "sub", "thumbs", "travel" >>

Rank(s) == CHOOSE i \in 1..Len(AsciiOrder) : AsciiOrder[i] = s

\* str.lower() of a path segment.
Lower(s) ==
  IF s = "Main" THEN "main"
  ELSE IF s = "New York" THEN "new york"
  ELSE s

\* '/'.join(parts) as a string.
RECURSIVE JoinWith(_, _)
JoinWith(parts, sep) ==
  IF parts = <<>> THEN ""
  ELSE IF Len(parts) = 1 THEN parts[1]
  ELSE parts[1] \o sep \o JoinWith(Tail(parts), sep)

(***************************************************************************)
(* Source photos.  A source file is [dir, file]: the directories below the *)
(* photos directory and the file name.                                     *)
(***************************************************************************)
File(dir, stem, suffix) == [dir |-> dir, file |-> [stem |-> stem, suffix |-> suffix]]

Name(f) == f.stem \o f.suffix

\* relative.parts
Parts(p) == Append(p.dir, Name(p.file))

Universe ==
  { File(<<>>, "a", ".jpg"),
    File(<<>>, "a", ".png"),
    File(<<>>, "b", ".jpg"),
    File(<<>>, "notes", ".txt"),
    File(<<"travel">>, "a", ".jpg"),
    File(<<"travel", "spain">>, "c", ".jpg"),
    File(<<"travel", "New York">>, "b", ".jpg"),
    File(<<"thumbs", "travel">>, "a", ".jpg"),
    File(<<"Main", "sub">>, "c", ".jpg"),
    File(<<"main">>, "b", ".jpg") }

\* Pixel size of each source image.
SourceSize(p) ==
  IF p.file.stem = "a" THEN <<3000, 2000>>
  ELSE IF p.file.stem = "b" THEN <<800, 600>>
  ELSE <<600, 900>>

\* Whether the source image carries EXIF data is irrelevant: getexif() returns an
\* Exif object either way.

(***************************************************************************)
(* Configuration (config.yaml, read by __init__).                          *)
(***************************************************************************)
\* config['advanced']['image_extensions']
Extensions == {".jpg", ".png"}

\* config['portfolio']['max_image_width'], ['max_image_height']
MaxImageWidth == 1920

MaxImageHeight == 1080

\* The side of the thumbnail box.
ThumbBox == 400

BuildDir == <<"docs">>

BaseConfig ==
  [ incremental |-> TRUE,
    keep_original_filenames |-> TRUE,
    generate_webp |-> FALSE,
    border_pct |-> 0,
    strip_exif |-> TRUE,
    display_exif |-> FALSE,
    images |-> <<>> ]

\* Each option changed alone with incremental builds on; the image directory layouts
\* with incremental builds off.
Configs ==
  LET variants ==
        { BaseConfig,
          [BaseConfig EXCEPT !.keep_original_filenames = FALSE],
          [BaseConfig EXCEPT !.generate_webp = TRUE],
          [BaseConfig EXCEPT !.border_pct = 5],
          [BaseConfig EXCEPT !.strip_exif = FALSE, !.display_exif = TRUE],
          [BaseConfig EXCEPT !.images = <<"site_images">>],
          [BaseConfig EXCEPT !.images = <<"docs", "img">>] }
  IN variants \cup {[c EXCEPT !.incremental = FALSE] : c \in {v \in variants : v.border_pct = 0
                          /\ v.keep_original_filenames /\ ~v.generate_webp /\ v.strip_exif}}

\* self.images_output_dir, self.images_dir
ImagesDir(cfg) == IF cfg.images # <<>> THEN cfg.images ELSE BuildDir \o <<"images">>

\* self.thumbs_dir
ThumbsDir(cfg) == ImagesDir(cfg) \o <<"thumbs">>

\* self.images_base_path.rstrip('/')
BasePath == "images"

(***************************************************************************)
(* The filesystem below the build and image directories:                   *)
(* [dirs: the directories, files: path -> the file written there].         *)
(***************************************************************************)
EmptyFs == [dirs |-> {}, files |-> << >>]

\* Path.exists()
Exists(fs, p) == p \in fs.dirs \/ p \in DOMAIN fs.files

\* Path.mkdir(parents=True, exist_ok=True)
MkdirP(fs, p) == [fs EXCEPT !.dirs = @ \cup {SubSeq(p, 1, k) : k \in 1..Len(p)}]

\* shutil.rmtree(p)
RmTree(fs, p) ==
  [ dirs |-> {d \in fs.dirs : ~IsPrefix(p, d)},
    files |-> [f \in {g \in DOMAIN fs.files : ~IsPrefix(p, g)} |-> fs.files[f]] ]

\* for item in p.iterdir(): if item.name != keep: remove item (tree or file)
RemoveItemsExcept(fs, p, keep) ==
  LET gone(e) == IsPrefix(p, e) /\ Len(e) > Len(p) /\ e[Len(p) + 1] # keep
  IN [ dirs |-> {d \in fs.dirs : ~gone(d)},
       files |-> [f \in {g \in DOMAIN fs.files : ~gone(g)} |-> fs.files[f]] ]

\* Writing a file at path p.
WriteFile(fs, p, rec) ==
  [fs EXCEPT !.files = [q \in DOMAIN fs.files \cup {p} |-> IF q = p THEN rec ELSE fs.files[q]]]

\* clean_build creating the directories and removing nothing.
CleanBuildRemovingNothing(fs, cfg, incremental) ==
  MkdirP(MkdirP(MkdirP(fs, BuildDir), ImagesDir(cfg)), ThumbsDir(cfg))

\* clean_build(incremental)
CleanBuild(fs, cfg, incremental) ==
  LET cleaned ==
        IF Exists(fs, BuildDir)
        THEN IF incremental /\ Exists(fs, BuildDir \o <<"images">>)
             THEN RemoveItemsExcept(fs, BuildDir, "images")
             ELSE RmTree(fs, BuildDir)
        ELSE fs
      made == MkdirP(cleaned, BuildDir)
      separate ==
        IF ~incremental /\ ImagesDir(cfg) # BuildDir \o <<"images">>
              /\ Exists(made, ImagesDir(cfg))
        THEN RmTree(made, ImagesDir(cfg))
        ELSE made
  IN MkdirP(MkdirP(separate, ImagesDir(cfg)), ThumbsDir(cfg))

(***************************************************************************)
(* scan_photos: the walk of the photos directory and the album tree.       *)
(* An album level (a dict in insertion order) is a sequence of nodes       *)
(* [name, path, photos, subalbums] with pairwise distinct names.           *)
(***************************************************************************)
\* Order of two lists of path parts, as sorted() compares Path objects.
RECURSIVE PartsLess(_, _)
PartsLess(a, b) ==
  IF a = <<>> THEN b # <<>>
  ELSE IF b = <<>> THEN FALSE
  ELSE IF Head(a) = Head(b) THEN PartsLess(Tail(a), Tail(b))
  ELSE Rank(Head(a)) < Rank(Head(b))

\* sorted(S)
RECURSIVE SortPaths(_)
SortPaths(S) ==
  IF S = {} THEN <<>>
  ELSE LET m == CHOOSE x \in S : \A y \in S \ {x} : PartsLess(Parts(x), Parts(y))
       IN <<m>> \o SortPaths(S \ {m})

\* The files the walk passes to _add_photo_to_nested_structure, in order.
Discover(files) ==
  SortPaths({p \in files : Lower(p.file.suffix) \in Extensions /\ Name(p.file) # "README.md"})

HasKey(level, key) == \E i \in 1..Len(level) : level[i].name = key

KeyIndex(level, key) == CHOOSE i \in 1..Len(level) : level[i].name = key

NewNode(name, path) == [name |-> name, path |-> path, photos |-> <<>>, subalbums |-> <<>>]

\* The loop creating a node at every part, whether or not the level holds one.
RECURSIVE InsertAtNewNode(_, _, _, _)
InsertAtNewNode(current, parts, path_so_far, photo) ==
  LET part == Head(parts)
      path == Append(path_so_far, part)
      level == Append(current, NewNode(part, path))
      i == Len(level)
  IN IF Len(parts) = 1
     THEN [level EXCEPT ![i].photos = Append(@, photo)]
     ELSE [level EXCEPT ![i].subalbums = InsertAtNewNode(@, Tail(parts), path, photo)]

\* The loop over the directory parts of a photo in a subdirectory.
RECURSIVE InsertAt(_, _, _, _)
InsertAt(current, parts, path_so_far, photo) ==
  LET part == Head(parts)
      path == Append(path_so_far, part)
      level == IF HasKey(current, part) THEN current ELSE Append(current, NewNode(part, path))
      i == KeyIndex(level, part)
  IN IF Len(parts) = 1
     THEN [level EXCEPT ![i].photos = Append(@, photo)]
     ELSE [level EXCEPT ![i].subalbums = InsertAt(@, Tail(parts), path, photo)]

\* _add_photo_to_nested_structure(albums, relative_path, photo_path)
AddPhotoToNestedStructure(albums, photo) ==
  IF Len(Parts(photo)) = 1
  THEN LET level == IF HasKey(albums, "Main") THEN albums
                    ELSE Append(albums, NewNode("Main", <<"main">>))
       IN [level EXCEPT ![KeyIndex(level, "Main")].photos = Append(@, photo)]
  ELSE InsertAt(albums, photo.dir, <<>>, photo)

\* The albums dict after the scan loop, before the single-album special case.
RECURSIVE BuildTree(_, _)
BuildTree(albums, found) ==
  IF found = <<>> THEN albums
  ELSE BuildTree(AddPhotoToNestedStructure(albums, Head(found)), Tail(found))

\* The single-album special case at the end of scan_photos.
Collapse(albums) ==
  IF Len(albums) = 1 /\ HasKey(albums, "Main")
  THEN [single_album |-> TRUE, photos |-> albums[KeyIndex(albums, "Main")].photos, albums |-> <<>>]
  ELSE [single_album |-> FALSE, photos |-> <<>>, albums |-> albums]

\* scan_photos()
ScanPhotos(dir_exists, files) ==
  IF ~dir_exists THEN Collapse(<<>>) ELSE Collapse(BuildTree(<<>>, Discover(files)))

\* "if not albums": the empty dict.
IsEmptyScan(scan) == ~scan.single_album /\ scan.albums = <<>>

(***************************************************************************)
(* process_image and the staleness check.                                  *)
(***************************************************************************)
\* The value None, where a string is expected and where an image info dictionary is.
None == "None"

NoPhoto == [none |-> TRUE]

Digits == <<"0", "1", "2", "3", "4", "5", "6", "7", "8", "9">>

\* f"{n:03d}"
Pad3(n) ==
  Digits[((n \div 100) % 10) + 1] \o Digits[((n \div 10) % 10) + 1] \o Digits[(n % 10) + 1]

\* The output file name: [stem, suffix].
OutputName(cfg, source, photo_index) ==
  IF cfg.keep_original_filenames
  THEN source.file
  ELSE [stem |-> "photo-" \o Pad3(photo_index), suffix |-> source.file.suffix]

FullPath(cfg, album_path, out) == ImagesDir(cfg) \o album_path \o <<Name(out)>>

ThumbPath(cfg, album_path, out) == ThumbsDir(cfg) \o album_path \o <<Name(out)>>

WebpFullPath(cfg, album_path, out) == ImagesDir(cfg) \o album_path \o <<out.stem \o ".webp">>

WebpThumbPath(cfg, album_path, out) == ThumbsDir(cfg) \o album_path \o <<out.stem \o ".webp">>

\* outputs_to_check
OutputsToCheck(cfg, album_path, out) ==
  <<FullPath(cfg, album_path, out), ThumbPath(cfg, album_path, out)>>
    \o (IF cfg.generate_webp
        THEN <<WebpFullPath(cfg, album_path, out), WebpThumbPath(cfg, album_path, out)>>
        ELSE <<>>)

\* The staleness check taking an output as old as its source for a fresh one.
ShouldSkipWhenNotOlder(fs, source_mtime, output_paths) ==
  IF ~(\A i \in 1..Len(output_paths) : Exists(fs, output_paths[i]))
  THEN FALSE
  ELSE ~(\E i \in 1..Len(output_paths) : fs.files[output_paths[i]].mtime < source_mtime)

\* _should_skip_processing(source_path, output_paths), source_mtime being
\* source_path.stat().st_mtime
ShouldSkipProcessing(fs, source_mtime, output_paths) ==
  IF ~(\A i \in 1..Len(output_paths) : Exists(fs, output_paths[i]))
  THEN FALSE
  ELSE ~(\E i \in 1..Len(output_paths) : fs.files[output_paths[i]].mtime <= source_mtime)

\* Image.thumbnail((max_w, max_h)): the size that fits the box, aspect ratio kept,
\* the scaled side rounded to the nearest pixel and at least 1.
Thumbnail(size, max_w, max_h) ==
  LET w == size[1]
      h == size[2]
  IN IF max_w >= w /\ max_h >= h THEN size
     ELSE IF max_w * h >= max_h * w
          THEN <<Max((2 * max_h * w + h) \div (2 * h), 1), max_h>>
          ELSE <<max_w, Max((2 * max_w * h + w) \div (2 * w), 1)>>

\* int(min(width, height) * border_proportion)
BorderPx(size, border_pct) == (Min(size[1], size[2]) * border_pct) \div 100

\* add_border_to_image(image, border_width)
AddBorderToImage(size, border_width) ==
  IF border_width <= 0 THEN size
  ELSE <<size[1] + 2 * border_width, size[2] + 2 * border_width>>

\* The size an image file holds once saved, the border applied when configured.
SavedSize(cfg, size) ==
  IF cfg.border_pct > 0 THEN AddBorderToImage(size, BorderPx(size, cfg.border_pct)) ELSE size

ImageFile(mtime, size, source, kind) ==
  [mtime |-> mtime, width |-> size[1], height |-> size[2], source |-> source, kind |-> kind]

\* The web-relative path f"{base_path}/{album_path}/{name}" (album_path may be '').
Url(prefix, album_path, name) ==
  IF album_path # <<>>
  THEN prefix \o "/" \o JoinWith(album_path, "/") \o "/" \o name
  ELSE prefix \o "/" \o name

\* The image info dictionary; a key that is absent holds None.
ImageInfo(album_path, out, size, exif, webp) ==
  [ filename |-> Name(out),
    full |-> Url(BasePath, album_path, Name(out)),
    thumb |-> Url(BasePath \o "/thumbs", album_path, Name(out)),
    width |-> size[1],
    height |-> size[2],
    exif |-> exif,
    full_webp |-> IF webp THEN Url(BasePath, album_path, out.stem \o ".webp") ELSE None,
    thumb_webp |-> IF webp THEN Url(BasePath \o "/thumbs", album_path, out.stem \o ".webp")
                   ELSE None ]

\* _build_image_info(source_path, album_path, filename, full_path, thumb_path, webp_stem)
BuildImageInfo(fs, cfg, album_path, out) ==
  LET full == fs.files[FullPath(cfg, album_path, out)]
  IN ImageInfo(album_path, out, <<full.width, full.height>>, None,
               cfg.generate_webp /\ Exists(fs, WebpFullPath(cfg, album_path, out)))

\* The image files process_image writes when it does not skip.
Regenerate(fs, cfg, source, album_path, out, time) ==
  LET img == SourceSize(source)
      full_img == Thumbnail(img, MaxImageWidth, MaxImageHeight)
      thumb_img == Thumbnail(img, ThumbBox, ThumbBox)
      fs1 == WriteFile(fs, FullPath(cfg, album_path, out),
                       ImageFile(time, SavedSize(cfg, full_img), source, "full"))
      fs2 == WriteFile(fs1, ThumbPath(cfg, album_path, out),
                       ImageFile(time, SavedSize(cfg, thumb_img), source, "thumb"))
      fs3 == WriteFile(fs2, WebpFullPath(cfg, album_path, out),
                       ImageFile(time, SavedSize(cfg, full_img), source, "full_webp"))
      fs4 == WriteFile(fs3, WebpThumbPath(cfg, album_path, out),
                       ImageFile(time, SavedSize(cfg, thumb_img), source, "thumb_webp"))
  IN IF cfg.generate_webp THEN fs4 ELSE fs2

\* process_image(source_path, album_path, photo_index, skip_if_current):
\* [fs: the filesystem after the call, info: the dictionary returned,
\*  consulted: the staleness check ran, regenerated: the images were written].
ProcessImage(fs, cfg, source, source_mtime, album_path, photo_index, skip_if_current, time) ==
  LET out == OutputName(cfg, source, photo_index)
      made == MkdirP(MkdirP(fs, ImagesDir(cfg) \o album_path), ThumbsDir(cfg) \o album_path)
      skip == skip_if_current
                /\ ShouldSkipProcessing(made, source_mtime, OutputsToCheck(cfg, album_path, out))
      full_img == Thumbnail(SourceSize(source), MaxImageWidth, MaxImageHeight)
      exif_data == IF ~cfg.strip_exif /\ cfg.display_exif THEN "Exif" ELSE None
  IN IF skip
     THEN [ fs |-> made, info |-> BuildImageInfo(made, cfg, album_path, out),
            consulted |-> TRUE, regenerated |-> FALSE ]
     ELSE [ fs |-> Regenerate(made, cfg, source, album_path, out, time),
            info |-> ImageInfo(album_path, out, full_img, exif_data, cfg.generate_webp),
            consulted |-> skip_if_current, regenerated |-> TRUE ]

(***************************************************************************)
(* _process_albums_recursive: the order of the process_image calls, and    *)
(* the processed tree with its aggregates.                                 *)
(***************************************************************************)
\* enumerate(photos, start=1) as calls [source, album_path, photo_index].
Calls(photos, album_path) ==
  [i \in 1..Len(photos) |-> [source |-> photos[i], album_path |-> album_path, photo_index |-> i]]

\* The process_image calls of one album level, in call order.
RECURSIVE CallOrder(_)
CallOrder(albums_node) ==
  IF albums_node = <<>> THEN <<>>
  ELSE LET album_info == Head(albums_node)
       IN Calls(album_info.photos, album_info.path)
            \o CallOrder(album_info.subalbums)
            \o CallOrder(Tail(albums_node))

\* The count of the album's own photos, its sub-albums left out.
CountOwnPhotos(album_node) == Len(album_node.photos)

RECURSIVE CountAllPhotos(_)
\* _count_all_photos(album_node)
CountAllPhotos(album_node) ==
  LET subs == album_node.subalbums
      sum[i \in 0..Len(subs)] == IF i = 0 THEN 0 ELSE sum[i - 1] + CountAllPhotos(subs[i])
  IN Len(album_node.photos) + sum[Len(subs)]

\* The first photo of the album itself, its sub-albums left out.
GetOwnFirstPhoto(album_node) ==
  IF Len(album_node.photos) > 0 THEN album_node.photos[1] ELSE NoPhoto

RECURSIVE GetFirstPhoto(_)
\* _get_first_photo(album_node)
GetFirstPhoto(album_node) ==
  LET subs == album_node.subalbums
      first[i \in 1..Len(subs)] == GetFirstPhoto(subs[i])
      found == {i \in 1..Len(subs) : first[i] # NoPhoto}
  IN IF Len(album_node.photos) > 0 THEN album_node.photos[1]
     ELSE IF found = {} THEN NoPhoto
     ELSE first[CHOOSE i \in found : \A j \in found : i <= j]

\* _process_albums_recursive(albums_node), infos[source] being what process_image
\* returned for that source.
RECURSIVE ProcessAlbumsRecursive(_, _)
ProcessAlbumsRecursive(albums_node, infos) ==
  [ k \in 1..Len(albums_node) |->
      LET album_info == albums_node[k]
          album_node ==
            [ name |-> album_info.name,
              path |-> album_info.path,
              photos |-> [i \in 1..Len(album_info.photos) |-> infos[album_info.photos[i]]],
              subalbums |-> ProcessAlbumsRecursive(album_info.subalbums, infos) ]
      IN [ name |-> album_node.name,
           path |-> album_node.path,
           photos |-> album_node.photos,
           subalbums |-> album_node.subalbums,
           total_photos |-> CountAllPhotos(album_node),
           cover_photo |-> GetFirstPhoto(album_node) ] ]

(***************************************************************************)
(* generate_html: the pages written into the build directory.              *)
(***************************************************************************)
\* str.replace(' ', '-') of a lower-cased path segment.
Hyphenate(s) == IF s = "new york" THEN "new-york" ELSE s

\* str.capitalize() of a path segment: the first letter upper case, the rest lower.
Capitalize(s) ==
  IF s \in {"Main", "main"} THEN "Main"
  ELSE IF s = "New York" THEN "New york"
  ELSE IF s = "travel" THEN "Travel"
  ELSE IF s = "spain" THEN "Spain"
  ELSE IF s = "sub" THEN "Sub"
  ELSE IF s = "thumbs" THEN "Thumbs"
  ELSE s

\* The breadcrumb whose links are made of the segment alone, not of the path so far.
BuildBreadcrumbOfSegments(album_path) ==
  <<[name |-> "Home", url |-> "index.html"]>>
    \o [i \in 1..Len(album_path) |->
          [ name |-> Capitalize(album_path[i]),
            url |-> Hyphenate(Lower(album_path[i])) \o ".html" ]]

\* _build_breadcrumb(album_path), album_path.split('/') being the segments.
BuildBreadcrumb(album_path) ==
  LET home == <<[name |-> "Home", url |-> "index.html"]>>
      parts == album_path
      path_slug(i) ==
        JoinWith([k \in 1..i |-> Hyphenate(Lower(SubSeq(parts, 1, i)[k]))], "-")
  IN IF album_path = <<"main">>
     THEN Append(home, [name |-> "Main", url |-> "main.html"])
     ELSE home \o [i \in 1..Len(parts) |->
                     [name |-> Capitalize(parts[i]), url |-> path_slug(i) \o ".html"]]

\* album_node['path'].lower().replace(' ', '-').replace('/', '-')
AlbumSlug(path) == JoinWith([i \in 1..Len(path) |-> Hyphenate(Lower(path[i]))], "-")

\* A page written by a template: the album it shows and the breadcrumb it was given.
PageFile(time, path, breadcrumb) ==
  [mtime |-> time, kind |-> "page", album |-> path, breadcrumb |-> breadcrumb]

\* _render_album_pages(current_level, all_albums)
RECURSIVE RenderAlbumPages(_, _, _)
RenderAlbumPages(fs, current_level, time) ==
  IF current_level = <<>> THEN fs
  ELSE LET album_node == Head(current_level)
           written == WriteFile(fs, BuildDir \o <<AlbumSlug(album_node.path) \o ".html">>,
                                PageFile(time, album_node.path,
                                         BuildBreadcrumb(album_node.path)))
       IN RenderAlbumPages(RenderAlbumPages(written, album_node.subalbums, time),
                           Tail(current_level), time)

\* generate_html(albums_data): the styles and assets directories are copied, the
\* index page is written, and one page per album unless the data is a single album.
GenerateHtml(fs, albums_data, time) ==
  LET copied == MkdirP(MkdirP(fs, BuildDir \o <<"styles">>), BuildDir \o <<"assets">>)
      index == WriteFile(copied, BuildDir \o <<"index.html">>, PageFile(time, <<>>, <<>>))
  IN IF albums_data.single_album THEN index
     ELSE RenderAlbumPages(index, albums_data.albums, time)

(***************************************************************************)
(* State.                                                                  *)
(***************************************************************************)
VARIABLES
  config,         \* self.config
  photos_dir,     \* whether the photos directory exists
  sources,        \* the files of the photos directory: file -> modification time
  now,            \* the filesystem clock
  fs,             \* the build and image directories on disk
  pc,             \* where build() is: "idle" or "processing"
  force_rebuild,  \* build()'s argument
  incremental,    \* build()'s local
  albums,         \* scan_photos's local dict before the special case
  scan,           \* what scan_photos returned
  todo,           \* the process_image calls still to make
  infos,          \* what process_image returned: source -> image info
  consulted,      \* the sources whose staleness was checked in this build
  regenerated,    \* the sources whose images were written in this build
  stat_failed,    \* the sources whose staleness check met a failing stat in this build
  fs_before,      \* the filesystem when this build started
  runs,           \* the last two builds that ended, oldest first
  changed,        \* the photos directory changed since the last build ended
  changes,        \* number of changes made to the photos directory
  builds,         \* number of builds started
  oracle          \* an application of _should_skip_processing

vars ==
  << config, photos_dir, sources, now, fs, pc, force_rebuild, incremental, albums, scan,
     todo, infos, consulted, regenerated, stat_failed, fs_before, runs, changed, changes,
     builds, oracle >>

build_vars ==
  << pc, force_rebuild, incremental, albums, scan, todo, infos, consulted, regenerated,
     stat_failed, fs_before, runs, builds >>

NoScan == [single_album |-> FALSE, photos |-> <<>>, albums |-> <<>>]

NoOracle == [source_mtime |-> 0, fs |-> EmptyFs, output_paths |-> <<>>, result |-> "unset"]

SourceSets == {S \in SUBSET Universe : Cardinality(S) <= MaxFiles}

Init ==
  /\ config \in Configs
  /\ photos_dir \in BOOLEAN
  /\ \E S \in SourceSets :
       /\ ~photos_dir => S = {}
       /\ sources = [p \in S |-> 0]
  /\ now = 1
  /\ fs = EmptyFs
  /\ pc = "idle"
  /\ force_rebuild = FALSE
  /\ incremental = FALSE
  /\ albums = <<>>
  /\ scan = NoScan
  /\ todo = <<>>
  /\ infos = << >>
  /\ consulted = {}
  /\ regenerated = {}
  /\ stat_failed = {}
  /\ fs_before = EmptyFs
  /\ runs = <<>>
  /\ changed = FALSE
  /\ changes = 0
  /\ builds = 0
  /\ oracle = NoOracle

(***************************************************************************)
(* The environment: the clock and the photos directory.  The photos        *)
(* present at the start were written at time 0, before the first build at *)
(* time 1; the model follows the clock and the directory from there.       *)
(***************************************************************************)
\* Time passes between builds; the files a build writes carry the time of the build.
Tick ==
  /\ pc = "idle"
  /\ builds > 0
  /\ now < MaxTime
  /\ now' = now + 1
  /\ UNCHANGED << config, photos_dir, sources, fs, build_vars, changed, changes, oracle >>

\* A file is added to the photos directory, or replaced: it is written now.
WriteSource(p) ==
  /\ pc = "idle"
  /\ builds > 0
  /\ photos_dir
  /\ changes < MaxChanges
  /\ p \in DOMAIN sources \/ Cardinality(DOMAIN sources) < MaxFiles
  /\ sources' = [q \in DOMAIN sources \cup {p} |-> IF q = p THEN now ELSE sources[q]]
  /\ changed' = TRUE
  /\ changes' = changes + 1
  /\ UNCHANGED << config, photos_dir, now, fs, build_vars, oracle >>

RemoveSource(p) ==
  /\ pc = "idle"
  /\ builds > 0
  /\ p \in DOMAIN sources
  /\ changes < MaxChanges
  /\ sources' = [q \in DOMAIN sources \ {p} |-> sources[q]]
  /\ changed' = TRUE
  /\ changes' = changes + 1
  /\ UNCHANGED << config, photos_dir, now, fs, build_vars, oracle >>

(***************************************************************************)
(* build(force_rebuild).                                                   *)
(***************************************************************************)
\* What a build that ended leaves in runs.
Run(outcome, incr, forced, data, discovered, regen, checked, was_changed) ==
  [ outcome |-> outcome, incremental |-> incr, force_rebuild |-> forced, data |-> data,
    discovered |-> discovered, regenerated |-> regen, consulted |-> checked,
    changed |-> was_changed ]

Last2(s) == IF Len(s) > 2 THEN SubSeq(s, Len(s) - 1, Len(s)) ELSE s

\* build() up to the end of the scan: the mode, clean_build, scan_photos and the
\* return when no photo was found.
StartBuild(force) ==
  /\ pc = "idle"
  /\ builds < MaxBuilds
  /\ builds' = builds + 1
  /\ LET incr == config.incremental /\ ~force
         cleaned == CleanBuild(fs, config, incr)
         found == IF photos_dir THEN Discover(DOMAIN sources) ELSE <<>>
         result == ScanPhotos(photos_dir, DOMAIN sources)
     IN /\ force_rebuild' = force
        /\ incremental' = incr
        /\ fs_before' = fs
        /\ fs' = cleaned
        /\ albums' = BuildTree(<<>>, found)
        /\ scan' = result
        /\ infos' = << >>
        /\ consulted' = {}
        /\ regenerated' = {}
        /\ stat_failed' = {}
        /\ IF IsEmptyScan(result)
           THEN /\ pc' = "idle"
                /\ todo' = <<>>
                /\ runs' = Last2(Append(runs, Run("no_photos", incr, force, NoScan, Range(found),
                                                  {}, {}, changed)))
                /\ changed' = FALSE
           ELSE /\ pc' = "processing"
                /\ todo' = IF result.single_album THEN Calls(result.photos, <<>>)
                           ELSE CallOrder(result.albums)
                /\ UNCHANGED << runs, changed >>
  /\ UNCHANGED << config, photos_dir, sources, now, changes, oracle >>

\* One iteration of a photo loop: a call of process_image.
ProcessNext ==
  /\ pc = "processing"
  /\ todo # <<>>
  /\ LET call == Head(todo)
         done == ProcessImage(fs, config, call.source, sources[call.source], call.album_path,
                              call.photo_index, incremental, now)
     IN /\ fs' = done.fs
        /\ infos' = [s \in DOMAIN infos \cup {call.source} |->
                       IF s = call.source THEN done.info ELSE infos[s]]
        /\ consulted' = IF done.consulted THEN consulted \cup {call.source} ELSE consulted
        /\ regenerated' = IF done.regenerated THEN regenerated \cup {call.source}
                          ELSE regenerated
        /\ todo' = Tail(todo)
  /\ UNCHANGED << config, photos_dir, sources, now, pc, force_rebuild, incremental, albums,
                  scan, stat_failed, fs_before, runs, changed, changes, builds, oracle >>

\* A call of process_image whose staleness check meets a stat that fails.  The
\* directories are made, then _should_skip_processing runs.  Path.exists() answers
\* False when the stat of an output fails with an error it ignores (no such file,
\* not a directory): the check returns False and the photo is regenerated.  When
\* every output exists the check goes on to source_path.stat() and to
\* output_path.stat(): a failure there raises OSError, nothing up to build()
\* catches it, and the build ends there.
StatFails(ignored) ==
  /\ pc = "processing"
  /\ todo # <<>>
  /\ incremental
  /\ LET call == Head(todo)
         album_path == call.album_path
         made == MkdirP(MkdirP(fs, ImagesDir(config) \o album_path),
                        ThumbsDir(config) \o album_path)
         out == OutputName(config, call.source, call.photo_index)
         output_paths == OutputsToCheck(config, album_path, out)
         done == ProcessImage(fs, config, call.source, sources[call.source], album_path,
                              call.photo_index, FALSE, now)
     IN /\ ignored \/ \A i \in 1..Len(output_paths) : Exists(made, output_paths[i])
        /\ stat_failed' = stat_failed \cup {call.source}
        /\ consulted' = consulted \cup {call.source}
        /\ IF ignored
           THEN /\ fs' = done.fs
                /\ infos' = [s \in DOMAIN infos \cup {call.source} |->
                               IF s = call.source THEN done.info ELSE infos[s]]
                /\ regenerated' = regenerated \cup {call.source}
                /\ todo' = Tail(todo)
                /\ UNCHANGED << pc, runs, changed >>
           ELSE /\ fs' = made
                /\ pc' = "idle"
                /\ todo' = <<>>
                /\ runs' = Last2(Append(runs, Run("error", incremental, force_rebuild, NoScan,
                                                  Range(Discover(DOMAIN sources)), regenerated,
                                                  consulted \cup {call.source}, changed)))
                /\ changed' = FALSE
                /\ UNCHANGED << infos, regenerated >>
  /\ UNCHANGED << config, photos_dir, sources, now, force_rebuild, incremental, albums, scan,
                  fs_before, changes, builds, oracle >>

\* The data build() hands to generate_html.
AlbumsData ==
  IF scan.single_album
  THEN [ single_album |-> TRUE,
         photos |-> [i \in 1..Len(scan.photos) |-> infos[scan.photos[i]]],
         albums |-> <<>> ]
  ELSE [ single_album |-> FALSE,
         photos |-> <<>>,
         albums |-> ProcessAlbumsRecursive(scan.albums, infos) ]

\* The end of build(): the processed tree is complete and generate_html writes the site.
FinishBuild ==
  /\ pc = "processing"
  /\ todo = <<>>
  /\ fs' = GenerateHtml(fs, AlbumsData, now)
  /\ runs' = Last2(Append(runs, Run("complete", incremental, force_rebuild, AlbumsData,
                                    Range(Discover(DOMAIN sources)), regenerated, consulted,
                                    changed)))
  /\ changed' = FALSE
  /\ pc' = "idle"
  /\ UNCHANGED << config, photos_dir, sources, now, force_rebuild, incremental, albums, scan,
                  todo, infos, consulted, regenerated, stat_failed, fs_before, changes, builds,
                  oracle >>

Next ==
  \/ Tick
  \/ \E p \in Universe : WriteSource(p)
  \/ \E p \in Universe : RemoveSource(p)
  \/ \E force \in BOOLEAN : StartBuild(force)
  \/ ProcessNext
  \/ \E ignored \in BOOLEAN : StatFails(ignored)
  \/ FinishBuild

Spec == Init /\ [][Next]_vars

(***************************************************************************)
(* Builds of an unchanging photos directory.                               *)
(***************************************************************************)
NextBuild ==
  \/ \E force \in BOOLEAN : StartBuild(force)
  \/ ProcessNext
  \/ FinishBuild

SpecTree == Init /\ [][NextBuild]_vars

(***************************************************************************)
(* Builds of a photos directory that loses photos between builds.          *)
(***************************************************************************)
NextSite ==
  \/ \E p \in Universe : RemoveSource(p)
  \/ NextBuild

SpecSite == Init /\ [][NextSite]_vars

(***************************************************************************)
(* The same, of a photos directory without subdirectories.                 *)
(***************************************************************************)
InitFlat == Init /\ \A p \in DOMAIN sources : p.dir = <<>>

SpecFlat == InitFlat /\ [][NextSite]_vars

(***************************************************************************)
(* _should_skip_processing applied to a source and to the expected outputs *)
(* of one photo, each output absent or written at any time.                *)
(***************************************************************************)
OracleOutputs ==
  { OutputsToCheck(cfg, <<"travel">>, [stem |-> "a", suffix |-> ".jpg"]) :
      cfg \in {BaseConfig, [BaseConfig EXCEPT !.generate_webp = TRUE]} }

OracleFiles(paths) ==
  UNION { [S -> {ImageFile(t, <<1, 1>>, File(<<"travel">>, "a", ".jpg"), "full") : t \in 0..MaxTime}] :
            S \in SUBSET Range(paths) }

InitOracle ==
  /\ config = BaseConfig
  /\ photos_dir = TRUE
  /\ sources = << >>
  /\ now = 1
  /\ fs = EmptyFs
  /\ pc = "idle"
  /\ force_rebuild = FALSE
  /\ incremental = FALSE
  /\ albums = <<>>
  /\ scan = NoScan
  /\ todo = <<>>
  /\ infos = << >>
  /\ consulted = {}
  /\ regenerated = {}
  /\ stat_failed = {}
  /\ fs_before = EmptyFs
  /\ runs = <<>>
  /\ changed = FALSE
  /\ changes = 0
  /\ builds = 0
  /\ \E paths \in OracleOutputs, t \in 0..MaxTime :
       \E files \in OracleFiles(paths) :
         oracle = [ source_mtime |-> t, fs |-> [dirs |-> {}, files |-> files],
                    output_paths |-> paths, result |-> "unset" ]

CheckStaleness ==
  /\ oracle.result = "unset"
  /\ oracle' = [oracle EXCEPT !.result =
                  IF ShouldSkipProcessing(oracle.fs, oracle.source_mtime, oracle.output_paths)
                  THEN "skip" ELSE "regenerate"]
  /\ UNCHANGED << config, photos_dir, sources, now, fs, build_vars, changed, changes >>

SpecOracle == InitOracle /\ [][CheckStaleness]_vars

(***************************************************************************)
(* Properties.                                                             *)
(***************************************************************************)
\* The photos the walk of the photos directory finds, in discovery order.
Found == IF photos_dir THEN Discover(DOMAIN sources) ELSE <<>>

\* The directory path of a photo, a photo of the root counting as in "Main".
AlbumDir(p) == IF p.dir = <<>> THEN <<"Main">> ELSE p.dir

Prefixes(d) == {SubSeq(d, 1, k) : k \in 1..Len(d)}

\* Every node of a tree with the chain of names leading to it, parents first.
RECURSIVE NodesOf(_, _)
NodesOf(level, chain) ==
  IF level = <<>> THEN <<>>
  ELSE LET c == Append(chain, Head(level).name)
       IN <<[chain |-> c, node |-> Head(level)]>>
            \o NodesOf(Head(level).subalbums, c)
            \o NodesOf(Tail(level), chain)

\* The photos of found that lie in directory d, in the order of found.
RECURSIVE PhotosIn(_, _)
PhotosIn(found, d) ==
  IF found = <<>> THEN <<>>
  ELSE (IF AlbumDir(Head(found)) = d THEN <<Head(found)>> ELSE <<>>) \o PhotosIn(Tail(found), d)

\* The last build that ended.
LastRun == runs[Len(runs)]

\* A build has ended and none has started since.
Ended(outcome) == pc = "idle" /\ runs # <<>> /\ LastRun.outcome = outcome

\* C1: _should_skip_processing returns true exactly when every output exists and
\* every output's modification time is strictly greater than the source's; it
\* returns false when an output is absent and when an output is as old as the
\* source or older.
C1_SkipIffAllOutputsNewer ==
  oracle.result # "unset" =>
    LET all_exist == \A i \in 1..Len(oracle.output_paths) :
                       oracle.output_paths[i] \in DOMAIN oracle.fs.files
        all_newer == \A i \in 1..Len(oracle.output_paths) :
                       /\ oracle.output_paths[i] \in DOMAIN oracle.fs.files
                       /\ oracle.fs.files[oracle.output_paths[i]].mtime > oracle.source_mtime
    IN /\ oracle.result = "skip" <=> all_newer
       /\ ~all_exist => oracle.result = "regenerate"

\* All four outputs exist, none is older than the source and one is as old: the
\* check answers that the photo must be regenerated.
C1_Witness ==
  /\ oracle.result = "regenerate"
  /\ Len(oracle.output_paths) = 4
  /\ \A i \in 1..4 :
       /\ oracle.output_paths[i] \in DOMAIN oracle.fs.files
       /\ oracle.fs.files[oracle.output_paths[i]].mtime >= oracle.source_mtime
  /\ \E i \in 1..4 : oracle.fs.files[oracle.output_paths[i]].mtime = oracle.source_mtime

\* C3: before the single-album special case, the tree holds exactly one node per
\* distinct directory-path prefix of the photos found (a photo of the root counting
\* as in "Main"), no prefix has two nodes, and the photo list of each node is the
\* photos of that directory in discovery order, so that every photo is in exactly
\* one list.
C3_OneNodePerPrefix ==
  builds > 0 =>
    LET nodes == NodesOf(albums, <<>>)
        prefixes == UNION {Prefixes(AlbumDir(Found[i])) : i \in 1..Len(Found)}
    IN /\ {nodes[i].chain : i \in 1..Len(nodes)} = prefixes
       /\ Len(nodes) = Cardinality(prefixes)
       /\ \A i \in 1..Len(nodes) : nodes[i].node.photos = PhotosIn(Found, nodes[i].chain)

\* A node reached twice by the insertions: it holds a photo and a sub-album.
C3_Witness ==
  /\ builds > 0
  /\ \E i \in 1..Len(albums) : albums[i].photos # <<>> /\ albums[i].subalbums # <<>>

\* The image info records of the data handed to generate_html, in page order.
RECURSIVE RecordsOf(_)
RecordsOf(level) ==
  IF level = <<>> THEN <<>>
  ELSE Head(level).photos \o RecordsOf(Head(level).subalbums) \o RecordsOf(Tail(level))

DataRecords(data) == IF data.single_album THEN data.photos ELSE RecordsOf(data.albums)

\* A record without its metadata field.
SizedRecord(info) == [info EXCEPT !.exif = None]

\* C2, the records' file names, paths and sizes: a second incremental build of an
\* unchanged photos directory hands generate_html, for every photo, a record with
\* the filename, the paths, the width and the height of the first build's record.
C2_SecondBuildSameRecords ==
  ( /\ Len(runs) = 2
    /\ runs[1].outcome = "complete" /\ runs[2].outcome = "complete"
    /\ runs[1].incremental /\ runs[2].incremental
    /\ ~runs[2].changed )
  => LET first == DataRecords(runs[1].data)
         second == DataRecords(runs[2].data)
     IN /\ Len(second) = Len(first)
        /\ \A i \in 1..Len(first) : SizedRecord(second[i]) = SizedRecord(first[i])

\* C4: scan_photos returns the single-album form exactly when photos were found and
\* all of them lie in the root; the form then holds the photos found in discovery
\* order; one root photo and one photo of a subdirectory give the two albums Main
\* and the subdirectory.
C4_CollapseIffRootOnly ==
  builds > 0 =>
    /\ scan.single_album <=> (Found # <<>> /\ \A i \in 1..Len(Found) : Found[i].dir = <<>>)
    /\ scan.single_album => scan.photos = Found
    /\ ( /\ Len(Found) = 2
         /\ \E i, j \in 1..2 : Found[i].dir = <<>> /\ Len(Found[j].dir) = 1 )
       => /\ ~scan.single_album
          /\ Len(scan.albums) = 2
          /\ \E i, j \in 1..2 : /\ scan.albums[i].name = "Main"
                                /\ Len(Found[j].dir) = 1
                                /\ scan.albums[3 - i].name = Found[j].dir[1]

\* C5: when build() ends having rendered the site, every photo the walk found has
\* exactly one record in the data handed to generate_html.
C5_EveryPhotoHasRecord ==
  Ended("complete") =>
    LET recs == DataRecords(LastRun.data)
    IN /\ Len(recs) = Cardinality(LastRun.discovered)
       /\ \A p \in LastRun.discovered :
            p \in DOMAIN infos /\ \E i \in 1..Len(recs) : recs[i] = infos[p]

\* C6: a forced build under a configuration with incremental builds on never runs
\* the staleness check and regenerates every photo the walk found.
C6_ForceRegeneratesAll ==
  (Ended("complete") /\ LastRun.force_rebuild /\ config.incremental)
  => /\ LastRun.consulted = {}
     /\ LastRun.regenerated = LastRun.discovered

\* C7, as claimed: a build that finds no photo leaves every file and directory
\* that existed before it in place and unchanged.
C7_ExistingOutputUntouched ==
  Ended("no_photos") =>
    /\ fs_before.dirs \subseteq fs.dirs
    /\ \A f \in DOMAIN fs_before.files : f \in DOMAIN fs.files /\ fs.files[f] = fs_before.files[f]

\* C7, amended: a build that finds no photo ends without processing or rendering
\* anything (it writes no file), but clean_build has run before the scan: the build
\* directory keeps nothing but its images subdirectory, a build that is not
\* incremental keeps no file at all, an incremental one keeps the image files
\* unchanged when the image directory is the build directory's images subdirectory
\* or lies outside the build directory, and the build, image and thumbs
\* directories exist.
C7_NoPhotosCleanSlate ==
  Ended("no_photos") =>
    /\ \A f \in DOMAIN fs.files : f \in DOMAIN fs_before.files /\ fs.files[f] = fs_before.files[f]
    /\ \A f \in DOMAIN fs.files : IsPrefix(BuildDir, f) => IsPrefix(BuildDir \o <<"images">>, f)
    /\ ~LastRun.incremental => DOMAIN fs.files = {}
    /\ ( /\ LastRun.incremental
         /\ ImagesDir(config) = BuildDir \o <<"images">> \/ ~IsPrefix(BuildDir, ImagesDir(config)) )
       => \A f \in DOMAIN fs_before.files : IsPrefix(ImagesDir(config), f) => f \in DOMAIN fs.files
    /\ {BuildDir, ImagesDir(config), ThumbsDir(config)} \subseteq fs.dirs
    /\ LastRun.consulted = {} /\ LastRun.regenerated = {}

\* A site had been generated, its photos were removed, and the next build found
\* no photo.
C7_Witness ==
  /\ Ended("no_photos")
  /\ BuildDir \o <<"index.html">> \in DOMAIN fs_before.files
  /\ \E f \in DOMAIN fs_before.files : fs_before.files[f].kind = "full"

\* The sum of total_photos over the nodes of one level.
RECURSIVE SumTotals(_)
SumTotals(level) ==
  IF level = <<>> THEN 0 ELSE Head(level).total_photos + SumTotals(Tail(level))

\* C8: in a tree that is not the single-album form, total_photos of every node is
\* its own photo count plus the total_photos of its children, and the totals of the
\* top-level albums add up to the number of photos found.
C8_TotalPhotos ==
  (Ended("complete") /\ ~LastRun.data.single_album) =>
    LET nodes == NodesOf(LastRun.data.albums, <<>>)
    IN /\ \A i \in 1..Len(nodes) :
            nodes[i].node.total_photos
              = Len(nodes[i].node.photos) + SumTotals(nodes[i].node.subalbums)
       /\ SumTotals(LastRun.data.albums) = Cardinality(LastRun.discovered)

\* An album with a photo of its own and a sub-album with a photo.
C8_Witness ==
  /\ Ended("complete")
  /\ ~LastRun.data.single_album
  /\ \E i \in 1..Len(LastRun.data.albums) :
       LET n == LastRun.data.albums[i]
       IN n.photos # <<>> /\ n.subalbums # <<>> /\ n.total_photos = 2

\* The cover of the first node of a level that has one, None when none has.
RECURSIVE FirstCover(_)
FirstCover(level) ==
  IF level = <<>> THEN NoPhoto
  ELSE IF Head(level).cover_photo # NoPhoto THEN Head(level).cover_photo
  ELSE FirstCover(Tail(level))

\* C9: in a tree that is not the single-album form, cover_photo of every node is
\* its own first photo when it has photos and otherwise the first cover its
\* children have, in insertion order; it is the first photo of the subtree in a
\* depth-first visit, and it is None exactly when the subtree holds no photo.
C9_CoverPhoto ==
  (Ended("complete") /\ ~LastRun.data.single_album) =>
    LET nodes == NodesOf(LastRun.data.albums, <<>>)
    IN \A i \in 1..Len(nodes) :
         LET n == nodes[i].node
             subtree == n.photos \o RecordsOf(n.subalbums)
         IN /\ n.cover_photo = IF n.photos # <<>> THEN n.photos[1] ELSE FirstCover(n.subalbums)
            /\ n.cover_photo = IF subtree # <<>> THEN subtree[1] ELSE NoPhoto
            /\ n.cover_photo = NoPhoto <=> subtree = <<>>

\* An album without photos of its own whose cover comes from a sub-album.
C9_Witness ==
  /\ Ended("complete")
  /\ ~LastRun.data.single_album
  /\ \E i \in 1..Len(LastRun.data.albums) :
       LET n == LastRun.data.albums[i]
       IN /\ n.photos = <<>>
          /\ n.subalbums # <<>>
          /\ n.cover_photo = n.subalbums[1].photos[1]

\* C10: the nodes of the tree scan_photos builds have pairwise different path
\* strings, and two photos of one directory are in the photo list of one node.
C10_UniquePaths ==
  builds > 0 =>
    LET nodes == NodesOf(albums, <<>>)
    IN /\ \A i, j \in 1..Len(nodes) : i # j => nodes[i].node.path # nodes[j].node.path
       /\ \A a, b \in 1..Len(Found) :
            Found[a].dir = Found[b].dir =>
              \E i \in 1..Len(nodes) : {Found[a], Found[b]} \subseteq Range(nodes[i].node.photos)

\* The name of the page _render_album_pages writes for a node.
PageName(node) == AlbumSlug(node.path) \o ".html"

\* The node of a list of nodes with their chains that a chain of names leads to.
NodeAt(nodes, chain) == nodes[CHOOSE i \in 1..Len(nodes) : nodes[i].chain = chain].node

\* C11: the breadcrumb given to the page of every album node is (Home, index.html)
\* followed by one entry per segment of the node's path; the name of an entry is
\* the capitalized segment, its url is the slug of the path so far plus .html; the
\* url of the last entry is the name of the page written for the node, the url of
\* every other entry the name of the page written for the ancestor at that depth;
\* the pages named exist.  For travel/spain the breadcrumb is Home/index.html,
\* Travel/travel.html, Spain/travel-spain.html.
C11_Breadcrumb ==
  (Ended("complete") /\ ~LastRun.data.single_album) =>
    LET nodes == NodesOf(LastRun.data.albums, <<>>)
    IN \A i \in 1..Len(nodes) :
         LET n == nodes[i].node
             chain == nodes[i].chain
             page == BuildDir \o <<PageName(n)>>
             b == fs.files[page].breadcrumb
         IN /\ page \in DOMAIN fs.files
            /\ b = BuildBreadcrumb(n.path)
            /\ Len(b) = 1 + Len(n.path)
            /\ b[1] = [name |-> "Home", url |-> "index.html"]
            /\ \A k \in 1..Len(n.path) :
                 /\ b[k + 1].name = Capitalize(n.path[k])
                 /\ b[k + 1].url = AlbumSlug(SubSeq(n.path, 1, k)) \o ".html"
                 /\ b[k + 1].url = PageName(NodeAt(nodes, SubSeq(chain, 1, k)))
                 /\ BuildDir \o <<b[k + 1].url>> \in DOMAIN fs.files
            /\ n.path = <<"travel", "spain">> =>
                 b = << [name |-> "Home", url |-> "index.html"],
                        [name |-> "Travel", url |-> "travel.html"],
                        [name |-> "Spain", url |-> "travel-spain.html"] >>
            /\ n.path = <<"travel", "New York">> => b[3].url = "travel-new-york.html"

\* The page of an album two levels deep, in a directory whose name holds a space
\* and upper-case letters, was written with its three-entry breadcrumb.
C11_Witness ==
  /\ Ended("complete")
  /\ BuildDir \o <<"travel-new-york.html">> \in DOMAIN fs.files
  /\ Len(fs.files[BuildDir \o <<"travel-new-york.html">>].breadcrumb) = 3

\* C12: a stat that fails while the staleness check of a photo runs makes the
\* photo one to regenerate: the photo is regenerated, and the build does not end
\* with an error.
C12_StatFailureRegenerates ==
  /\ stat_failed \subseteq regenerated
  /\ \A i \in 1..Len(runs) : runs[i].outcome # "error"

\* The process_image calls of the build, in call order.
AllCalls == IF scan.single_album THEN Calls(scan.photos, <<>>) ELSE CallOrder(scan.albums)

\* The outputs process_image checks for a call, and writes when it regenerates.
OutputsOf(call) ==
  OutputsToCheck(config, call.album_path, OutputName(config, call.source, call.photo_index))

\* C13, the case it names, outputs named by the photo's index in its album
\* (keep_original_filenames off): whenever an incremental build skips a photo,
\* every output it reuses for the photo was generated from that photo, whatever
\* builds and removals of photos came before.
C13_SkipReusesOwnOutputs ==
  [][ ( /\ ~config.keep_original_filenames
        /\ pc = "processing" /\ pc' = "processing"
        /\ todo # <<>> /\ todo' = Tail(todo)
        /\ Head(todo).source \notin regenerated' )
      => \A i \in 1..Len(OutputsOf(Head(todo))) :
           /\ OutputsOf(Head(todo))[i] \in DOMAIN fs.files
           /\ fs.files[OutputsOf(Head(todo))[i]].source = Head(todo).source ]_vars

\* The artifacts process_image writes for a call: the kind and the path of each.
ArtifactsOf(call) ==
  LET out == OutputName(config, call.source, call.photo_index)
      images == { [kind |-> "full", path |-> FullPath(config, call.album_path, out)],
                  [kind |-> "thumb", path |-> ThumbPath(config, call.album_path, out)] }
      webp == { [kind |-> "full_webp", path |-> WebpFullPath(config, call.album_path, out)],
                [kind |-> "thumb_webp", path |-> WebpThumbPath(config, call.album_path, out)] }
  IN IF config.generate_webp THEN images \cup webp ELSE images

\* C14: the artifacts written so far in a build, the full image, the thumbnail and
\* the WebP variants of every photo regenerated, were written to pairwise
\* different paths: no two artifacts of different kinds or of different photos
\* share a path.
C14_DistinctOutputPaths ==
  LET written == {c \in Range(AllCalls) : c.source \in regenerated}
  IN \A c1, c2 \in written :
       \A a1 \in ArtifactsOf(c1), a2 \in ArtifactsOf(c2) :
         (c1 # c2 \/ a1.kind # a2.kind) => a1.path # a2.path

====
